---- MODULE Spec2Model ----
(***************************************************************************)
(* Model of snippet-checker (src/snippet-checker/src/main.rs): the         *)
(* documentation-drift detector that compares the annotated rust fences of *)
(* an mdBook with the source files they name.                              *)
(*                                                                         *)
(* A text (&str / String) is a sequence of one-character strings, "\n"     *)
(* included, so that lines(), trim(), strip_prefix() and join() are        *)
(* computed and not assumed.  Option values are records tagged None/Some.  *)
(* The texts hold no carriage return, so a line ends at "\n" only.          *)
(*                                                                         *)
(* A document is given by the captures rust_code_regex finds in it, in     *)
(* order: (path, snippet) pairs.  The regex itself, the removal of the     *)
(* "> " prefixes before it, and the printing of the line diff (print_diff) *)
(* are not modelled; a DIFF report is kept as the two texts it compares.   *)
(***************************************************************************)
EXTENDS Integers, Sequences, FiniteSets, TLC

(***************************************************************************)
(* Bounds of the model.                                                    *)
(***************************************************************************)
MaxStripLen == 5
MaxIdentLen == 9
MaxFileLines == 3
MaxSnippetLines == 2
MaxSnippets == 2
MaxDocs == 2

(***************************************************************************)
(* Option<T>                                                               *)
(***************************************************************************)
None == [tag |-> "None"]
Some(v) == [tag |-> "Some", val |-> v]

(***************************************************************************)
(* The std string functions the program calls.                             *)
(***************************************************************************)
NL == "\n"

\* char::is_whitespace, restricted to the characters a text can hold here
IsWhitespace(c) == c \in {" ", "\t", "\n"}

\* str::starts_with / str::strip_prefix
StartsWith(s, p) == Len(s) >= Len(p) /\ SubSeq(s, 1, Len(p)) = p
StripPrefix(s, p) == IF StartsWith(s, p) THEN Some(SubSeq(s, Len(p) + 1, Len(s))) ELSE None

\* str::trim_start, str::trim_end, str::trim
RECURSIVE TrimStart(_)
TrimStart(s) ==
    IF s # <<>> /\ IsWhitespace(Head(s)) THEN TrimStart(Tail(s)) ELSE s

RECURSIVE TrimEnd(_)
TrimEnd(s) ==
    IF s # <<>> /\ IsWhitespace(s[Len(s)]) THEN TrimEnd(SubSeq(s, 1, Len(s) - 1)) ELSE s

Trim(s) == TrimEnd(TrimStart(s))

\* str::find(char): the 0-based index of the first occurrence
RECURSIVE FindFrom(_, _, _)
FindFrom(s, c, k) ==
    IF k > Len(s) THEN None
    ELSE IF s[k] = c THEN Some(k - 1)
    ELSE FindFrom(s, c, k + 1)

Find(s, c) == FindFrom(s, c, 1)

\* The pieces of s between its line feeds, the empty ones included.
RECURSIVE SplitFrom(_, _, _)
SplitFrom(s, k, cur) ==
    IF k > Len(s) THEN <<cur>>
    ELSE IF s[k] = NL THEN <<cur>> \o SplitFrom(s, k + 1, <<>>)
    ELSE SplitFrom(s, k + 1, Append(cur, s[k]))

\* str::lines: the text split at "\n"; a final empty piece is no line.
Lines(s) ==
    LET p == SplitFrom(s, 1, <<>>)
    IN  IF p[Len(p)] = <<>> THEN SubSeq(p, 1, Len(p) - 1) ELSE p

\* [String]::join("\n")
RECURSIVE Join(_)
Join(ls) ==
    IF ls = <<>> THEN <<>>
    ELSE IF Len(ls) = 1 THEN ls[1]
    ELSE ls[1] \o <<NL>> \o Join(Tail(ls))

(***************************************************************************)
(* strip_comments                                                          *)
(***************************************************************************)
\* Variants of strip_line: one drops the rest of the line with the marker,
\* one takes the `#` of an #[attribute] for a marker too.
strip_line_drop_rest(line) ==
    LET trimmed == TrimStart(line)
    IN  IF StartsWith(trimmed, <<"#">>) /\ ~StartsWith(trimmed, <<"#", "[">>)
        THEN SubSeq(line, 1, Find(line, "#").val)
        ELSE line

strip_line_any_hash(line) ==
    LET trimmed == TrimStart(line)
    IN  IF StartsWith(trimmed, <<"#">>)
        THEN LET hash_index == Find(line, "#").val
             IN  SubSeq(line, 1, hash_index)
                     \o TrimStart(SubSeq(line, hash_index + 2, Len(line)))
        ELSE line

\* The closure of .map(): a leading `#` that opens no #[attribute] is removed
\* together with the spaces after it.
strip_line(line) ==
    LET trimmed == TrimStart(line)
    IN  IF StartsWith(trimmed, <<"#">>) /\ ~StartsWith(trimmed, <<"#", "[">>)
        THEN LET hash_index == Find(line, "#").val
                 before == SubSeq(line, 1, hash_index)
                 after == TrimStart(SubSeq(line, hash_index + 2, Len(line)))
             IN  before \o after
        ELSE line

\* The closure of .filter(): lines that are not comments and are not empty
keep_line(line) ==
    ~StartsWith(TrimStart(line), <<"/", "/">>) /\ Trim(line) # <<>>

strip_comments(code) ==
    LET lines == Lines(code)
        mapped == [k \in DOMAIN lines |-> strip_line(lines[k])]
    IN  Join(SelectSeq(mapped, keep_line))

(***************************************************************************)
(* remove_identation                                                       *)
(***************************************************************************)
IdentWidth == 4

\* " ".repeat(4)
to_remove == [k \in 1..IdentWidth |-> " "]

\* Variant of ident_strip: a line without the prefix is kept as it is.
ident_strip_lenient(line) ==
    IF StartsWith(line, to_remove) THEN StripPrefix(line, to_remove) ELSE Some(line)

\* line.strip_prefix(&to_remove)
ident_strip(line) == StripPrefix(line, to_remove)

\* The for loop over block.lines().enumerate(); k - 1 is the loop's i.
RECURSIVE remove_identation_loop(_, _, _)
remove_identation_loop(lines, k, no_ident) ==
    IF k > Len(lines) THEN Some(no_ident)
    ELSE LET trimmed == ident_strip(lines[k])
         IN  IF trimmed # None
             THEN remove_identation_loop(
                      lines, k + 1,
                      (IF k - 1 # 0 THEN Append(no_ident, NL) ELSE no_ident) \o trimmed.val)
             ELSE None

\* Variant of remove_identation: a block without lines is not indented.
remove_identation_nonempty(block) ==
    IF Lines(block) = <<>> THEN None ELSE remove_identation_loop(Lines(block), 1, <<>>)

remove_identation(block) == remove_identation_loop(Lines(block), 1, <<>>)

(***************************************************************************)
(* extract_clean_block                                                     *)
(***************************************************************************)
Panic == [tag |-> "Panic"]

\* snippet.lines().find(|line| !line.trim().is_empty())
RECURSIVE find_first_line(_, _)
find_first_line(lines, k) ==
    IF k > Len(lines) THEN None
    ELSE IF Trim(lines[k]) # <<>> THEN Some(lines[k])
    ELSE find_first_line(lines, k + 1)

\* line.trim() == first_line.trim()
is_block_start(line, first_line) == Trim(line) = Trim(first_line)

\* Variant of is_code_line: comment lines are taken too.
is_code_line_keep_comments(line) == Trim(line) # <<>>

\* Only take the lines that are not comments nor empty
is_code_line(line) ==
    ~StartsWith(TrimStart(line), <<"/", "/">>) /\ Trim(line) # <<>>

\* The for loop over file_content.lines().enumerate(); k - 1 is the loop's i
\* and st holds the loop's mutable locals.
RECURSIVE extract_loop(_, _, _, _, _)
extract_loop(lines, k, st, first_line, snippet_lines) ==
    IF k > Len(lines) THEN st
    ELSE
      LET line == lines[k]
          starts == ~st.inside_block /\ is_block_start(line, first_line)
          inside_block == st.inside_block \/ starts
          block_start_line == IF starts THEN (k - 1) + 1 ELSE st.block_start_line
          takes == inside_block /\ is_code_line(line)
          block == IF takes
                   THEN (IF st.block_lines # 0 THEN Append(st.block, NL) ELSE st.block) \o line
                   ELSE st.block
          block_lines == IF takes THEN st.block_lines + 1 ELSE st.block_lines
          st1 == [inside_block |-> inside_block, block |-> block,
                  block_start_line |-> block_start_line, block_lines |-> block_lines,
                  assert_failed |-> FALSE]
      IN  IF ~inside_block THEN extract_loop(lines, k + 1, st1, first_line, snippet_lines)
          ELSE IF Len(Lines(block)) # block_lines
               THEN [st1 EXCEPT !.assert_failed = TRUE]          \* assert_eq!
          ELSE IF block_lines = snippet_lines THEN st1           \* break
          ELSE extract_loop(lines, k + 1, st1, first_line, snippet_lines)

\* Variant of extract_result: a block that the end of the file cut short is
\* no block.
extract_result_exact(st, snippet_lines) ==
    IF st.inside_block /\ st.block_lines = snippet_lines
    THEN Some(<<st.block_start_line, st.block>>)
    ELSE None

\* Return the block if anything is captured
extract_result(st, snippet_lines) ==
    IF st.inside_block THEN Some(<<st.block_start_line, st.block>>) ELSE None

extract_clean_block(file_content, snippet) ==
    LET snippet_lines == Len(Lines(snippet))
        first_line == find_first_line(Lines(snippet), 1)
    IN  IF first_line = None THEN None
        ELSE LET st == extract_loop(
                           Lines(file_content), 1,
                           [inside_block |-> FALSE, block |-> <<>>, block_start_line |-> 0,
                            block_lines |-> 0, assert_failed |-> FALSE],
                           first_line.val, snippet_lines)
             IN  IF st.assert_failed THEN Panic ELSE extract_result(st, snippet_lines)

(***************************************************************************)
(* validate_file_path and fs::read_to_string                               *)
(*                                                                         *)
(* The tree under $CODE_DIR/crates/ is a function from the relative paths  *)
(* to what is found there: a regular file of text, a regular file that is  *)
(* not UTF-8 ("binary"), a directory, or nothing.                          *)
(***************************************************************************)
Paths == {"lib.rs", "t.rs", "bin", "blob.rs", "gone.rs"}

validate_file_path(snippet_path, files) ==
    IF files[snippet_path].kind \in {"file", "binary"} THEN Some(snippet_path) ELSE None

Err == [tag |-> "Err"]
Ok(v) == [tag |-> "Ok", val |-> v]

read_to_string(path, files) ==
    IF files[path].kind = "file" THEN Ok(files[path].text) ELSE Err

(***************************************************************************)
(* get_md_snippets_diff: one iteration of its loop over the captures       *)
(***************************************************************************)
NotCalled == [tag |-> "NotCalled"]

\* Variant of first_capture: without the test of i.
first_capture_every(idx, d) == Some(FALSE)

\* if i == 0 { diff = Some(false); }
first_capture(idx, d) == IF idx = 0 THEN Some(FALSE) ELSE d

\* Variant of unwrap_block: unwrap_or_default.
unwrap_block_or_default(loc) ==
    [panic |-> FALSE, val |-> IF loc.tag = "Some" THEN loc.val ELSE <<0, <<>>>>]

\* extract_clean_block(..).unwrap_or_else(|| panic!(..))
unwrap_block(loc) ==
    IF loc.tag = "Some" THEN [panic |-> FALSE, val |-> loc.val]
    ELSE [panic |-> TRUE, val |-> <<0, <<>>>>]

\* Variant of compare_block: the lines are compared without their indentation.
compare_block_trimmed(cleaned, block) ==
    LET doc == Lines(cleaned)
        real == Lines(block)
    IN  [differs |-> [k \in DOMAIN doc |-> TrimStart(doc[k])]
                         # [k \in DOMAIN real |-> TrimStart(real[k])],
         block |-> block]

\* if cleaned_snippet != block { .. }: whether the snippet differs from the
\* block, and the block that the diff is printed against.
compare_block(cleaned, block) ==
    IF cleaned # block
    THEN LET no_ident_block == remove_identation(block)
         IN  IF no_ident_block # None
             THEN IF cleaned = no_ident_block.val
                  THEN [differs |-> FALSE, block |-> block]        \* continue
                  ELSE [differs |-> TRUE, block |-> no_ident_block.val]
             ELSE [differs |-> TRUE, block |-> block]
    ELSE [differs |-> FALSE, block |-> block]

\* diff = Some(true)
mark_diff(d) == Some(TRUE)

Aborted(kind, d) ==
    [outcome |-> kind, diff |-> d, code_content |-> <<>>, cleaned_snippet |-> <<>>,
     located |-> NotCalled, report |-> None]

\* The body of the for loop, for capture number idx: caps.path is capture
\* group 1, caps.snippet capture group 2.
snippet_iteration(idx, caps, d, files) ==
    LET d0 == first_capture(idx, d)
        code_path == validate_file_path(caps.path, files)
    IN  IF code_path = None THEN Aborted("panic_path", d0)
        ELSE
        LET content == read_to_string(code_path.val, files)
        IN  IF content = Err THEN Aborted("io_error", d0)
            ELSE
            LET cleaned == strip_comments(caps.snippet)
                seen == [Aborted("panic_ident", d0) EXCEPT
                            !.code_content = content.val, !.cleaned_snippet = cleaned]
            IN  IF remove_identation(cleaned) # None THEN seen      \* assert!
                ELSE
                LET loc == extract_clean_block(content.val, cleaned)
                    got == unwrap_block(loc)
                IN  IF loc = Panic
                    THEN [seen EXCEPT !.outcome = "panic_assert", !.located = loc]
                    ELSE IF got.panic
                    THEN [seen EXCEPT !.outcome = "panic_block", !.located = loc]
                    ELSE
                    LET cmp == compare_block(cleaned, got.val[2])
                    IN  IF cmp.differs
                        THEN [seen EXCEPT
                                 !.outcome = "diff", !.located = loc, !.diff = mark_diff(d0),
                                 !.report = Some([index |-> idx, path |-> caps.path,
                                                  line |-> got.val[1],
                                                  doc_code |-> cleaned,
                                                  real_code |-> cmp.block])]
                        ELSE [seen EXCEPT !.outcome = "match", !.located = loc]

PanicOutcomes == {"panic_path", "panic_ident", "panic_block", "panic_assert"}

(***************************************************************************)
(* main                                                                    *)
(***************************************************************************)
\* Variant of main_match: final_diff is assigned for every document.
main_match_overwrite(flag, verdict) == verdict = Some(TRUE)

\* match get_md_snippets_diff(md_content)? { Some(true) => final_diff = true, .. }
main_match(flag, verdict) == IF verdict = Some(TRUE) THEN TRUE ELSE flag

(***************************************************************************)
(* State                                                                   *)
(***************************************************************************)
VARIABLES
    pc,              \* where the run is: walking, in_doc, panicked, io_error,
                     \* exit_ok, exit_fail (and the steps of the function runs)
    code,            \* strip_comments alone: its argument,
    stripped,        \*   its result,
    restripped,      \*   and the result of stripping that again
    ident_in,        \* remove_identation alone: its argument
    ident_out,       \*   and its result
    fs,              \* the tree under $CODE_DIR/crates/
    walk_len,        \* the number of entries of the sorted walk
    e,               \* the number of entries main has finished with
    md,              \* the captures of the document being checked, in order
    i,               \* get_md_snippets_diff: the index of the next capture
    diff,            \* get_md_snippets_diff: its local diff
    final_diff,      \* main: its local final_diff
    code_content,    \* locals of the last iteration
    cleaned_snippet,
    located,         \* what extract_clean_block returned in the last iteration
    report,          \* the DIFF report printed by the last iteration, if any
    outcomes,        \* history: how each iteration of this document ended
    ret,             \* what get_md_snippets_diff returned for the last document
    mismatched       \* history: some document's verdict was Some(true)

vars == <<pc, code, stripped, restripped, ident_in, ident_out, fs, walk_len, e, md, i,
          diff, final_diff, code_content, cleaned_snippet, located, report, outcomes,
          ret, mismatched>>

stripVars == <<code, stripped, restripped>>
identVars == <<ident_in, ident_out>>
walkVars == <<fs, walk_len, e, md, i, diff, final_diff, outcomes, ret, mismatched>>
iterVars == <<code_content, cleaned_snippet, located, report>>

Pending == [tag |-> "Pending"]

TextsOver(A, n) == UNION {[1..k -> A] : k \in 0..n}
SeqsUpTo(S, n) == UNION {[1..k -> S] : k \in 0..n}

StripIdle == code = <<>> /\ stripped = <<>> /\ restripped = <<>>
IdentIdle == ident_in = <<>> /\ ident_out = None
IterIdle ==
    /\ code_content = <<>>
    /\ cleaned_snippet = <<>>
    /\ located = NotCalled
    /\ report = None

(***************************************************************************)
(* The source tree and the documents of the runs of main.                  *)
(***************************************************************************)
Absent == [kind |-> "absent", text |-> <<>>]
Dir == [kind |-> "dir", text |-> <<>>]
Binary == [kind |-> "binary", text |-> <<>>]
File(t) == [kind |-> "file", text |-> t]

\* lib.rs:   1 //c    2 a    3 (blank)    4 b    5 "    c"    6 "    d"    7 e
LibRs ==
    Join(<< <<"/", "/", "c">>, <<"a">>, <<>>, <<"b">>,
            <<" ", " ", " ", " ", "c">>, <<" ", " ", " ", " ", "d">>, <<"e">> >>) \o <<NL>>

TreeWith(t) ==
    [p \in Paths |->
        CASE p = "lib.rs" -> File(LibRs)
          [] p = "t.rs" -> File(t)
          [] p = "bin" -> Dir
          [] p = "blob.rs" -> Binary
          [] OTHER -> Absent]

Capture(p, body) == [path |-> p, snippet |-> body]

Catalog ==
    { Capture("lib.rs", <<"a", NL, "b">>),                  \* equal to the block
      Capture("lib.rs", <<"c", NL, "d">>),                  \* the block is indented
      Capture("lib.rs", <<"a", NL, "x">>),                  \* differs
      Capture("lib.rs", <<"e", NL, "x">>),                  \* the file ends in the block
      Capture("lib.rs", <<"z">>),                           \* no line of the file starts it
      Capture("lib.rs", <<" ", " ", " ", " ", "c">>),       \* indented snippet
      Capture("lib.rs", <<"/", "/", "c">>),                 \* nothing but a comment
      Capture("gone.rs", <<"a">>),
      Capture("bin", <<"a">>),
      Capture("blob.rs", <<"a">>) }

(***************************************************************************)
(* The steps of main and of get_md_snippets_diff.                          *)
(***************************************************************************)
\* An entry of the walk that is no .md file: continue
SkipEntry ==
    /\ pc = "walking"
    /\ e < walk_len
    /\ e' = e + 1
    /\ UNCHANGED <<pc, fs, walk_len, md, i, diff, final_diff, outcomes, ret, mismatched>>
    /\ UNCHANGED <<stripVars, identVars, iterVars>>

\* fs::read_to_string(md_path)? fails: main returns the error
ReadDocFail ==
    /\ pc = "walking"
    /\ e < walk_len
    /\ pc' = "io_error"
    /\ UNCHANGED <<walkVars, stripVars, identVars, iterVars>>

\* main calls get_md_snippets_diff(md_content), which starts with diff = None
EnterDoc ==
    /\ pc = "walking"
    /\ e < walk_len
    /\ \E d \in SeqsUpTo(Catalog, MaxSnippets) : md' = d
    /\ i' = 0
    /\ diff' = None
    /\ outcomes' = <<>>
    /\ ret' = Pending
    /\ pc' = "in_doc"
    /\ code_content' = <<>>
    /\ cleaned_snippet' = <<>>
    /\ located' = NotCalled
    /\ report' = None
    /\ UNCHANGED <<fs, walk_len, e, final_diff, mismatched>>
    /\ UNCHANGED <<stripVars, identVars>>

\* One iteration of the for loop of get_md_snippets_diff
ProcessSnippet ==
    /\ pc = "in_doc"
    /\ i < Len(md)
    /\ \E r \in {snippet_iteration(i, md[i + 1], diff, fs)} :
           /\ diff' = r.diff
           /\ code_content' = r.code_content
           /\ cleaned_snippet' = r.cleaned_snippet
           /\ located' = r.located
           /\ report' = r.report
           /\ outcomes' = Append(outcomes, r.outcome)
           /\ pc' = IF r.outcome \in PanicOutcomes THEN "panicked"
                    ELSE IF r.outcome = "io_error" THEN "io_error"
                    ELSE "in_doc"
           /\ i' = IF r.outcome \in {"match", "diff"} THEN i + 1 ELSE i
    /\ UNCHANGED <<fs, walk_len, e, md, final_diff, ret, mismatched>>
    /\ UNCHANGED <<stripVars, identVars>>

\* The loop is over: Ok(diff) goes back to main, whose match folds it into
\* final_diff, and the walk goes on.
ReturnDoc ==
    /\ pc = "in_doc"
    /\ i = Len(md)
    /\ ret' = diff
    /\ final_diff' = main_match(final_diff, diff)
    /\ mismatched' = (mismatched \/ diff = Some(TRUE))
    /\ e' = e + 1
    /\ pc' = "walking"
    /\ UNCHANGED <<fs, walk_len, md, i, diff, outcomes>>
    /\ UNCHANGED <<stripVars, identVars, iterVars>>

\* The walk is over: the final status and the exit
Finish ==
    /\ pc = "walking"
    /\ e = walk_len
    /\ pc' = IF final_diff THEN "exit_fail" ELSE "exit_ok"
    /\ UNCHANGED <<walkVars, stripVars, identVars, iterVars>>

(***************************************************************************)
(* Spec: main over a walk of at most MaxDocs entries; the documents hold   *)
(* at most MaxSnippets captures of the catalog.                            *)
(***************************************************************************)
Init ==
    /\ pc = "walking"
    /\ fs = TreeWith(<<"a", NL>>)
    /\ walk_len \in 0..MaxDocs
    /\ e = 0
    /\ md = <<>>
    /\ i = 0
    /\ diff = None
    /\ final_diff = FALSE
    /\ outcomes = <<>>
    /\ ret = Pending
    /\ mismatched = FALSE
    /\ IterIdle
    /\ StripIdle
    /\ IdentIdle

Next == SkipEntry \/ ReadDocFail \/ EnterDoc \/ ProcessSnippet \/ ReturnDoc \/ Finish

Spec == Init /\ [][Next]_vars

(***************************************************************************)
(* SpecSnippet: get_md_snippets_diff on a document whose last capture is   *)
(* any snippet of at most MaxSnippetLines lines naming t.rs, t.rs being    *)
(* any file of at most MaxFileLines lines; the capture comes first, or     *)
(* after a capture that differs from its block.                            *)
(***************************************************************************)
Indent(l) == to_remove \o l

SnippetLineVocab == {<<"a">>, Indent(<<"a">>), <<"/", "/", "c">>, <<>>}

SourceLineVocab ==
    {<<"a">>, <<"b">>, Indent(<<"a">>), Indent(Indent(<<"a">>)), <<"/", "/", "c">>}

SnippetBodies == {Join(ls) : ls \in SeqsUpTo(SnippetLineVocab, MaxSnippetLines)}
SourceTexts == {Join(ls) \o <<NL>> : ls \in SeqsUpTo(SourceLineVocab, MaxFileLines)}

InitSnippet ==
    /\ pc = "in_doc"
    /\ \E t \in SourceTexts : fs = TreeWith(t)
    /\ \E body \in SnippetBodies :
          md \in { <<Capture("t.rs", body)>>,
                   <<Capture("lib.rs", <<"a", NL, "x">>), Capture("t.rs", body)>> }
    /\ walk_len = 1
    /\ e = 0
    /\ i = 0
    /\ diff = None
    /\ final_diff = FALSE
    /\ outcomes = <<>>
    /\ ret = Pending
    /\ mismatched = FALSE
    /\ IterIdle
    /\ StripIdle
    /\ IdentIdle

NextSnippet == ProcessSnippet \/ ReturnDoc \/ Finish

SpecSnippet == InitSnippet /\ [][NextSnippet]_vars

(***************************************************************************)
(* SpecLocate: extract_clean_block applied to any file of at most          *)
(* MaxFileLines lines and any comment-stripped snippet of at most          *)
(* MaxSnippetLines lines; then, for the snippets that pass the assert! of  *)
(* get_md_snippets_diff, the comparison and the report that follow it.     *)
(***************************************************************************)
FileLineVocab == SourceLineVocab \cup {Indent(<<"b">>), <<>>}

FileTexts == {Join(ls) : ls \in SeqsUpTo(FileLineVocab, MaxFileLines)}

CleanLineVocab == {<<"a">>, <<"b">>, Indent(<<"a">>), <<" ", "a">>}

CleanSnippets == {Join(ls) : ls \in SeqsUpTo(CleanLineVocab, MaxSnippetLines)}

InitLocate ==
    /\ pc = "locate"
    /\ code_content \in FileTexts \cup {t \o <<NL>> : t \in FileTexts}
    /\ cleaned_snippet \in CleanSnippets
    /\ located = NotCalled
    /\ report = None
    /\ fs = TreeWith(<<>>)
    /\ walk_len = 0
    /\ e = 0
    /\ md = <<>>
    /\ i = 0
    /\ diff = None
    /\ final_diff = FALSE
    /\ outcomes = <<>>
    /\ ret = Pending
    /\ mismatched = FALSE
    /\ StripIdle
    /\ IdentIdle

Locate ==
    /\ pc = "locate"
    /\ located' = extract_clean_block(code_content, cleaned_snippet)
    /\ pc' = "located"
    /\ UNCHANGED <<code_content, cleaned_snippet, report>>
    /\ UNCHANGED <<walkVars, stripVars, identVars>>

\* Lines 106-129 on the located block
CompareLocated ==
    /\ pc = "located"
    /\ remove_identation(cleaned_snippet) = None
    /\ ~unwrap_block(located).panic
    /\ LET got == unwrap_block(located).val
           cmp == compare_block(cleaned_snippet, got[2])
       IN  report' = IF cmp.differs
                     THEN Some([index |-> 0, path |-> "t.rs", line |-> got[1],
                                doc_code |-> cleaned_snippet, real_code |-> cmp.block])
                     ELSE None
    /\ pc' = "compared"
    /\ UNCHANGED <<code_content, cleaned_snippet, located>>
    /\ UNCHANGED <<walkVars, stripVars, identVars>>

NextLocate == Locate \/ CompareLocated

SpecLocate == InitLocate /\ [][NextLocate]_vars

(***************************************************************************)
(* SpecStrip: strip_comments applied to every text of at most MaxStripLen  *)
(* characters, and then to its own result.                                 *)
(***************************************************************************)
StripAlphabet == {" ", "#", "[", "/", "x", NL}

InitStrip ==
    /\ pc = "strip"
    /\ code \in TextsOver(StripAlphabet, MaxStripLen)
    /\ stripped = <<>>
    /\ restripped = <<>>
    /\ fs = TreeWith(<<>>)
    /\ walk_len = 0
    /\ e = 0
    /\ md = <<>>
    /\ i = 0
    /\ diff = None
    /\ final_diff = FALSE
    /\ outcomes = <<>>
    /\ ret = Pending
    /\ mismatched = FALSE
    /\ IterIdle
    /\ IdentIdle

StripOnce ==
    /\ pc = "strip"
    /\ stripped' = strip_comments(code)
    /\ pc' = "stripped"
    /\ UNCHANGED <<code, restripped>>
    /\ UNCHANGED <<walkVars, iterVars, identVars>>

StripAgain ==
    /\ pc = "stripped"
    /\ restripped' = strip_comments(stripped)
    /\ pc' = "restripped"
    /\ UNCHANGED <<code, stripped>>
    /\ UNCHANGED <<walkVars, iterVars, identVars>>

NextStrip == StripOnce \/ StripAgain

SpecStrip == InitStrip /\ [][NextStrip]_vars

(***************************************************************************)
(* SpecIdent: remove_identation applied to every text of at most           *)
(* MaxIdentLen characters.                                                 *)
(***************************************************************************)
IdentAlphabet == {" ", "x", NL}

InitIdent ==
    /\ pc = "ident"
    /\ ident_in \in TextsOver(IdentAlphabet, MaxIdentLen)
    /\ ident_out = None
    /\ fs = TreeWith(<<>>)
    /\ walk_len = 0
    /\ e = 0
    /\ md = <<>>
    /\ i = 0
    /\ diff = None
    /\ final_diff = FALSE
    /\ outcomes = <<>>
    /\ ret = Pending
    /\ mismatched = FALSE
    /\ IterIdle
    /\ StripIdle

RemoveIdent ==
    /\ pc = "ident"
    /\ ident_out' = remove_identation(ident_in)
    /\ pc' = "ident_done"
    /\ UNCHANGED ident_in
    /\ UNCHANGED <<walkVars, iterVars, stripVars>>

NextIdent == RemoveIdent

SpecIdent == InitIdent /\ [][NextIdent]_vars

(***************************************************************************)
(* What the claims speak of, stated without the operators above: by the    *)
(* positions of the characters in a line.                                  *)
(***************************************************************************)
Space(c) == c \in {" ", "\t"}

\* The number of whitespace characters a line starts with and ends with
LeadWs(l) ==
    CHOOSE n \in 0..Len(l) :
        /\ \A k \in 1..n : Space(l[k])
        /\ n < Len(l) => ~Space(l[n + 1])

TrailWs(l) ==
    CHOOSE n \in 0..Len(l) :
        /\ \A k \in (Len(l) - n + 1)..Len(l) : Space(l[k])
        /\ n < Len(l) => ~Space(l[Len(l) - n])

Blank(l) == \A k \in 1..Len(l) : Space(l[k])

\* The line without the whitespace around it
Core(l) == IF Blank(l) THEN <<>> ELSE SubSeq(l, LeadWs(l) + 1, Len(l) - TrailWs(l))

CommentLine(l) ==
    LET n == LeadWs(l) IN Len(l) >= n + 2 /\ l[n + 1] = "/" /\ l[n + 2] = "/"

Meaningful(l) == ~Blank(l) /\ ~CommentLine(l)

\* A line whose first character after its indentation is a `#` that opens
\* no #[attribute]
MarkerLine(l) ==
    LET n == LeadWs(l)
    IN  /\ Len(l) >= n + 1
        /\ l[n + 1] = "#"
        /\ ~(Len(l) >= n + 2 /\ l[n + 2] = "[")

\* The marker line as the claim has it: cut at the marker
CutAtMarker(l) == IF MarkerLine(l) THEN SubSeq(l, 1, LeadWs(l)) ELSE l

\* The marker line without the marker and the whitespace right after it
WithoutMarker(l) ==
    IF MarkerLine(l)
    THEN LET n == LeadWs(l)
             rest == SubSeq(l, n + 2, Len(l))
         IN  SubSeq(l, 1, n) \o SubSeq(rest, LeadWs(rest) + 1, Len(rest))
    ELSE l

HasIdent(l) == Len(l) >= IdentWidth /\ \A k \in 1..IdentWidth : l[k] = " "
WithoutIdent(l) == SubSeq(l, IdentWidth + 1, Len(l))

MinOf(S) == CHOOSE x \in S : \A y \in S : x <= y
Last(q) == q[Len(q)]

(***************************************************************************)
(* strip_comments (SpecStrip)                                              *)
(***************************************************************************)
\* C7 as stated: on a line whose text after its indentation begins with a `#`
\* not followed by `[`, everything from the `#` on is dropped and only what
\* stands before it is kept (the result is then filtered as every line is).
C7_CutAtMarker ==
    pc \in {"stripped", "restripped"} =>
        stripped = Join(SelectSeq([k \in DOMAIN Lines(code) |-> CutAtMarker(Lines(code)[k])],
                                  Meaningful))

\* C7 amended: on such a line only the `#` and the whitespace right after it
\* are removed; what stands before the `#` and the text after it are kept,
\* and the line is then dropped only if that leaves it blank or a // comment.
\* Lines beginning with `#[` are left unchanged.
C7_MarkerOnlyRemoved ==
    pc \in {"stripped", "restripped"} =>
        stripped = Join(SelectSeq([k \in DOMAIN Lines(code) |-> WithoutMarker(Lines(code)[k])],
                                  Meaningful))

\* An indented marker line with text after the marker was stripped
C7_Witness ==
    /\ pc = "stripped"
    /\ \E k \in 1..Len(Lines(code)) :
          /\ MarkerLine(Lines(code)[k])
          /\ LeadWs(Lines(code)[k]) > 0
          /\ Meaningful(WithoutMarker(Lines(code)[k]))
    /\ stripped # <<>>

\* C8 as stated: stripping the comments twice gives what stripping once
\* gives, for every text.
C8_Idempotent == pc = "restripped" => restripped = stripped

\* C8 amended: stripping twice gives what stripping once gives exactly when
\* no line of the once-stripped text still begins, after its indentation,
\* with a `#` not followed by `[`; a line with a second marker behind the
\* first loses one marker per pass.
C8_IdempotentUnlessMarkerLeft ==
    pc = "restripped" =>
        (restripped = stripped
            <=> \A k \in 1..Len(Lines(stripped)) : ~MarkerLine(Lines(stripped)[k]))

\* A text with a marker line that the first pass changed and the second did not
C8_Witness ==
    /\ pc = "restripped"
    /\ \E k \in 1..Len(Lines(code)) : MarkerLine(Lines(code)[k])
    /\ stripped # code
    /\ stripped # <<>>
    /\ restripped = stripped

(***************************************************************************)
(* remove_identation (SpecIdent)                                           *)
(***************************************************************************)
\* C9: if any line of the block does not start with 4 spaces the result is
\* None; if every line does, the result is the text whose lines are the
\* block's lines, in order and as many, each without its first 4 spaces.
C9_AllOrNothing ==
    pc = "ident_done" =>
        LET L == Lines(ident_in)
        IN  IF \E k \in 1..Len(L) : ~HasIdent(L[k])
            THEN ident_out = None
            ELSE /\ ident_out.tag = "Some"
                 /\ L = <<>> => ident_out.val = <<>>
                 /\ L # <<>> =>
                       SplitFrom(ident_out.val, 1, <<>>)
                           = [k \in 1..Len(L) |-> WithoutIdent(L[k])]

\* A block whose first line is indented and whose second is not
C9_Witness ==
    /\ pc = "ident_done"
    /\ Len(Lines(ident_in)) = 2
    /\ HasIdent(Lines(ident_in)[1])
    /\ ~HasIdent(Lines(ident_in)[2])
    /\ ident_out = None

(***************************************************************************)
(* extract_clean_block (SpecLocate, SpecSnippet)                           *)
(***************************************************************************)
\* The first line of the snippet that is not blank
FirstNonBlank(snip) ==
    LET L == Lines(snip)
    IN  L[MinOf({k \in 1..Len(L) : ~Blank(L[k])})]

HasNonBlank(snip) == \E k \in 1..Len(Lines(snip)) : ~Blank(Lines(snip)[k])

\* The numbers of the lines of the file that are the snippet's first line,
\* the whitespace around both set aside
Anchors(file, snip) ==
    IF ~HasNonBlank(snip) THEN {}
    ELSE LET first == Core(FirstNonBlank(snip))
             L == Lines(file)
         IN  {k \in DOMAIN L : Core(L[k]) = first}

\* The meaningful lines of the file from line a on
CodeFrom(file, a) == SelectSeq(SubSeq(Lines(file), a, Len(Lines(file))), Meaningful)

\* The first n lines of q, or all of q if it has fewer
Prefix(q, n) == SubSeq(q, 1, IF Len(q) < n THEN Len(q) ELSE n)

\* C3: when extract_clean_block returns a block, its start line is the
\* 1-based number of the first line of the file whose trimmed content is the
\* snippet's first non-blank line trimmed, the block is the meaningful lines
\* of the file from that line on, raw and in order, up to as many as the
\* snippet has lines, and a mismatch is reported with that start line.
C3_BlockFromAnchor ==
    (pc \in {"located", "compared"} /\ located.tag = "Some") =>
        \* (\A x \in {v} : .. gives the value v the name x)
        \A N \in {Len(Lines(cleaned_snippet))} :
        \A A \in {Anchors(code_content, cleaned_snippet)} :
            /\ HasNonBlank(cleaned_snippet)
            /\ A # {}
            /\ \A a \in {MinOf(A)} :
               \A expected \in {Prefix(CodeFrom(code_content, a), N)} :
                  /\ located.val[1] = a
                  /\ Lines(located.val[2]) = expected
                  /\ located.val[2] = Join(expected)
                  /\ (pc = "compared" /\ report # None) => report.val.line = a

\* A mismatch reported for a block of two lines that starts on line 1 of the
\* file and skips the file's second line
C3_Witness ==
    /\ pc = "compared"
    /\ report # None
    /\ report.val.line = 1
    /\ Len(Lines(code_content)) = 3
    /\ ~Meaningful(Lines(code_content)[2])
    /\ located.val[2] = Lines(code_content)[1] \o <<NL>> \o Lines(code_content)[3]

\* The last iteration called extract_clean_block
LocatorCalled == outcomes # <<>> /\ located # NotCalled

\* The anchor is in the file, and the file ends before the block has as many
\* meaningful lines as the snippet: A is the set of the anchor's lines, tail
\* the meaningful lines from the first of them on, N the snippet's lines.
CutShort(A, tail, N) == A # {} /\ Len(tail) < N

TailFrom(A) == IF A = {} THEN <<>> ELSE CodeFrom(code_content, MinOf(A))

\* C4 as stated: if the anchor is found and the file ends before the block
\* has the snippet's number of lines, no block is returned and the run
\* aborts; a returned block has exactly as many lines as the snippet.
C4_NoBlockWhenCutShort ==
    LocatorCalled =>
        \A N \in {Len(Lines(cleaned_snippet))} :
        \A A \in {Anchors(code_content, cleaned_snippet)} :
        \A tail \in {TailFrom(A)} :
            /\ CutShort(A, tail, N) =>
                  (located = None /\ Last(outcomes) = "panic_block")
            /\ located.tag = "Some" => Len(Lines(located.val[2])) = N

\* C4 amended: no block is returned exactly when no line of the file is the
\* anchor, and that aborts the run.  If the anchor is found and the file ends
\* before the block has the snippet's number of lines, the lines captured so
\* far are returned as the block with the anchor's line number, and the
\* comparison reports an ordinary mismatch at that line; the run goes on.  A
\* returned block has as many lines as the snippet, or all the meaningful
\* lines from the anchor on if those are fewer.
C4_CutShortBlockIsMismatch ==
    LocatorCalled =>
        \A N \in {Len(Lines(cleaned_snippet))} :
        \A A \in {Anchors(code_content, cleaned_snippet)} :
        \A tail \in {TailFrom(A)} :
            /\ located = None <=> A = {}
            /\ located = None => (Last(outcomes) = "panic_block" /\ pc = "panicked")
            /\ CutShort(A, tail, N) =>
                  /\ located = Some(<<MinOf(A), Join(tail)>>)
                  /\ Len(Lines(located.val[2])) < N
                  /\ Last(outcomes) = "diff"
                  /\ report # None
                  /\ report.val.line = MinOf(A)
                  /\ pc \notin {"panicked", "io_error"}
            /\ located.tag = "Some" =>
                  Len(Lines(located.val[2])) = Len(Prefix(tail, N))

\* A snippet of two lines whose anchor is the last meaningful line of the file
C4_Witness ==
    /\ LocatorCalled
    /\ CutShort(Anchors(code_content, cleaned_snippet),
                TailFrom(Anchors(code_content, cleaned_snippet)),
                Len(Lines(cleaned_snippet)))
    /\ Len(Lines(cleaned_snippet)) = 2
    /\ Len(Lines(code_content)) = 3
    /\ located.tag = "Some"
    /\ located.val[1] = 2
    /\ Last(outcomes) = "diff"

(***************************************************************************)
(* The comparison of get_md_snippets_diff (SpecSnippet)                    *)
(***************************************************************************)
DiffBefore(k) == \E j \in 1..(k - 1) : outcomes[j] = "diff"

\* The block with one unit of indentation removed from each line is the snippet
Reconciles(snip, block) ==
    /\ \A k \in 1..Len(Lines(block)) : HasIdent(Lines(block)[k])
    /\ snip = Join([k \in DOMAIN Lines(block) |-> WithoutIdent(Lines(block)[k])])

\* C2: a snippet for which a block is located is a match, with no report and
\* the document's state as it was, if and only if the stripped snippet is the
\* block, or every line of the block starts with 4 spaces and the snippet is
\* the block with one such unit removed from each line; otherwise it is a
\* mismatch, with a report.
C2_MatchIffEqualOrOneUnit ==
    (outcomes # <<>> /\ located.tag = "Some") =>
        LET block == located.val[2]
            same == cleaned_snippet = block \/ Reconciles(cleaned_snippet, block)
        IN  /\ Last(outcomes) = (IF same THEN "match" ELSE "diff")
            /\ same => (report = None /\ diff = Some(DiffBefore(Len(outcomes))))
            /\ ~same => (report # None /\ diff = Some(TRUE))

\* A snippet of two lines that matches an indented block, after a snippet of
\* the same document that differed
C2_Witness ==
    /\ Len(outcomes) = 2
    /\ outcomes[1] = "diff"
    /\ outcomes[2] = "match"
    /\ Len(Lines(cleaned_snippet)) = 2
    /\ cleaned_snippet # located.val[2]
    /\ diff = Some(TRUE)

\* The snippet has no meaningful line
NoCode(body) ==
    \A k \in 1..Len(Lines(body)) : ~Meaningful(WithoutMarker(Lines(body)[k]))

\* C10: a snippet without a meaningful line, in a document whose path
\* resolves to a readable file, strips to the empty text, for which
\* remove_identation returns a result, so the assert fails: the run aborts
\* with the locator not called and nothing reported, the document's state
\* being HasSnippets or HasDiff already.
C10_EmptySnippetAborts ==
    (/\ outcomes # <<>>
     /\ fs[md[Len(outcomes)].path].kind = "file"
     /\ NoCode(md[Len(outcomes)].snippet)) =>
        /\ cleaned_snippet = <<>>
        /\ remove_identation(cleaned_snippet) = Some(<<>>)
        /\ Last(outcomes) = "panic_ident"
        /\ pc = "panicked"
        /\ located = NotCalled
        /\ report = None
        /\ diff = Some(DiffBefore(Len(outcomes)))
        /\ ret = Pending

\* A snippet that is one comment line, first in its document
C10_Witness ==
    /\ outcomes = <<"panic_ident">>
    /\ md[1].snippet = <<"/", "/", "c">>
    /\ diff = Some(FALSE)
    /\ pc = "panicked"

(***************************************************************************)
(* get_md_snippets_diff and main (Spec)                                    *)
(***************************************************************************)
SomeDiff == \E j \in 1..Len(outcomes) : outcomes[j] = "diff"

\* C1: the document's state is None until the first capture, Some(false)
\* from the first capture on whatever its outcome, Some(true) from the first
\* mismatch on and for the rest of the document; the verdict returned is None
\* iff the document has no capture, Some(false) iff it has one and none
\* mismatched, Some(true) iff one mismatched.
C1_DocumentState ==
    /\ outcomes = <<>> => diff = None
    /\ outcomes # <<>> => diff = Some(SomeDiff)
    /\ ret # Pending =>
          /\ Len(outcomes) = Len(md)
          /\ ret = None <=> md = <<>>
          /\ ret = Some(FALSE) <=> (md # <<>> /\ ~SomeDiff)
          /\ ret = Some(TRUE) <=> SomeDiff

\* A document whose first snippet differs and whose second matches
C1_Witness ==
    /\ ret = Some(TRUE)
    /\ outcomes = <<"diff", "match">>

\* C5: a mismatch does not stop the run: the loop goes on to the next
\* capture, a document returns only with all its captures done, and the run
\* exits only with all the entries of the walk done; final_diff is true
\* exactly when some document's verdict was Some(true), whatever came after
\* it; and the exit is the failure exactly then.
C5_MismatchDoesNotStop ==
    /\ \A j \in 1..Len(outcomes) : outcomes[j] = "diff" => i >= j
    /\ ret # Pending => Len(outcomes) = Len(md)
    /\ final_diff <=> mismatched
    /\ pc \in {"exit_ok", "exit_fail"} =>
          /\ e = walk_len
          /\ pc = "exit_fail" <=> mismatched

\* The walk of two entries is over with the failure, although the verdict
\* of its last document, of two captures, was Some(false)
C5_Witness ==
    /\ pc = "exit_fail"
    /\ walk_len = 2
    /\ ret = Some(FALSE)
    /\ Len(outcomes) = 2

\* The authoring errors of a capture
PathUnresolved(c) == fs[c.path].kind \notin {"file", "binary"}

StrippedLines(c) ==
    SelectSeq([k \in DOMAIN Lines(c.snippet) |-> WithoutMarker(Lines(c.snippet)[k])],
              Meaningful)

UniformIdent(c) == \A k \in 1..Len(StrippedLines(c)) : HasIdent(StrippedLines(c)[k])

NoAnchor(c) == Anchors(fs[c.path].text, Join(StrippedLines(c))) = {}

AuthoringError(c) ==
    \/ PathUnresolved(c)
    \/ fs[c.path].kind = "file" /\ UniformIdent(c)
    \/ fs[c.path].kind = "file" /\ ~UniformIdent(c) /\ NoAnchor(c)

\* C6: a capture with an authoring error ends the run where it is: it is the
\* last capture processed, no verdict is returned for its document, it is
\* not counted as a mismatch, and no step follows (no later capture, no
\* later document, no final status); and only an authoring error does so.
C6_AuthoringErrorAborts ==
    /\ \A k \in 1..Len(outcomes) :
          /\ AuthoringError(md[k]) =>
                /\ outcomes[k] \in PanicOutcomes
                /\ k = Len(outcomes)
                /\ i = k - 1
                /\ pc = "panicked"
                /\ ret = Pending
                /\ report = None
                /\ diff = Some(DiffBefore(k))
          /\ outcomes[k] \in PanicOutcomes => AuthoringError(md[k])
          /\ PathUnresolved(md[k]) => outcomes[k] = "panic_path"
    /\ pc = "panicked" => (outcomes # <<>> /\ Last(outcomes) \in PanicOutcomes)
    /\ pc = "panicked" => ~ENABLED Next

\* The first capture of the first document has no block in its file, and a
\* second capture and a second document are left
C6_Witness ==
    /\ pc = "panicked"
    /\ outcomes = <<"panic_block">>
    /\ Len(md) = 2
    /\ e = 0
    /\ walk_len = 2

====
